---- MODULE Spec2Model ----
(***************************************************************************)
(* Model of the cash-out strategy runner (scripts/v2_with_controllers.py)  *)
(* and of the arbitrage controller (controllers/generic/                   *)
(* arbitrage_controller.py).                                               *)
(*                                                                         *)
(* The runner is single threaded: the host clock calls on_tick, which runs *)
(* to completion.  One Tick action therefore models one whole on_tick.     *)
(* What the host does between two ticks (executors are created, fill,      *)
(* finish, an operator edits a controller's kill switch) is modelled by    *)
(* separate host actions.                                                  *)
(*                                                                         *)
(* Timestamps are counted in half seconds, so that a clock whose tick size *)
(* is below one second (two ticks less than performance_report_interval    *)
(* apart) is represented with integers: Seconds(n) is n seconds.           *)
(***************************************************************************)
EXTENDS Integers, Sequences, FiniteSets, TLC

(***************************************************************************)
(* Bounds of the model.                                                    *)
(***************************************************************************)
NumControllers == 2
MaxExecutors == 2
\* the wall-clock reading taken by __init__
StartTime == 1
\* the clock runs from StartTime to StartTime + Horizon
Horizon == 4

MaxTime == StartTime + Horizon

\* the orchestrator's snapshot holds up to MaxInfo executors
MaxInfo == 2
\* the market data provider's clock runs from 0 to MaxMarketTime seconds
MaxMarketTime == 2
\* the standalone strategy constructs up to MaxArbitrages executors
MaxArbitrages == 3
\* a string supplied for a decimal field has up to MaxChars characters
MaxChars == 3

\* n seconds as a duration in half seconds
Seconds(n) == 2 * n

\* the clock advances by half a second or by a second between two ticks
TickSizes == {1, 2}

(***************************************************************************)
(* Program constants.                                                      *)
(***************************************************************************)
performance_report_interval == 1

Controllers == 1..NumControllers

\* RunnableStatus members the runner compares against
RUNNING == "RUNNING"
TERMINATED == "TERMINATED"

\* Optional[T]: None is the empty sequence, a present value v is <<v>>
None == <<>>
Some(v) == <<v>>

\* Python truthiness of an Optional[int]: None and 0 are false
Truthy(opt) == opt # None /\ opt[1] # 0

\* the values of time_to_cash_out (seconds) a config is drawn from
TimeToCashOutChoices == {None, Some(0), Some(1)}

VARIABLES
    \* GenericV2StrategyWithCashOutConfig
    time_to_cash_out,
    \* GenericV2StrategyWithCashOut
    cash_out_time,
    cashing_out,
    mqtt_enabled,
    last_performance_report_timestamp,
    \* host state the runner reads and commands
    current_timestamp,
    controller_status,
    manual_kill_switch,
    executors,
    app_stop_requests,
    \* what the on_tick just completed did; empty after any host step
    calls,
    controller_stops,
    stop_actions,
    published,
    \* history
    last_publication,
    manual_stop_issued,
    deadline_stop_ticks,
    \* ArbitrageController: the object's fields, its config among them
    controller,
    \* what the host's market data provider and orchestrator show it
    price,
    balance,
    market_time,
    executors_info,
    \* what the decision cycle just completed returned; empty after any
    \* host step
    returned_actions,
    \* whether the ArbitrageExecutorConfig constructor was set to raise in
    \* the decision cycle just completed; None after any host step
    cycle_input,
    \* Xarby: the strategy's lists, holding executors by identity
    active_buy_arbitrages,
    closed_arbitrage_executors,
    \* the ArbitrageExecutor objects constructed so far, by identity
    arbitrage_executors,
    \* what the connectors and the market data provider show Xarby
    xarby_base_balance,
    xarby_quote_balance,
    xarby_price,
    \* what the Xarby call just completed did; empty after any host step
    xarby_calls,
    xarby_created,
    \* the step of create_arbitrage_executor that was set to raise in the
    \* call just completed; None after any host step
    xarby_failure,
    \* ArbitrageControllerConfig validation: the field being validated, the
    \* value supplied for it, and what the validator returned (None before
    \* it has run)
    config_field,
    raw_value,
    validated,
    \* start(): the config dict of each controller, whether start() has
    \* run, and the requests it made of the host, in order
    controller_configs,
    started,
    set_leverage_calls,
    set_position_mode_calls

runner_vars ==
    <<time_to_cash_out, cash_out_time, cashing_out, mqtt_enabled,
      last_performance_report_timestamp, current_timestamp,
      controller_status, manual_kill_switch, executors,
      app_stop_requests, calls, controller_stops, stop_actions,
      published, last_publication, manual_stop_issued,
      deadline_stop_ticks>>

controller_vars ==
    <<controller, price, balance, market_time, executors_info,
      returned_actions, cycle_input>>

xarby_vars ==
    <<active_buy_arbitrages, closed_arbitrage_executors,
      arbitrage_executors, xarby_base_balance, xarby_quote_balance,
      xarby_price,
      xarby_calls, xarby_created, xarby_failure>>

config_vars == <<config_field, raw_value, validated>>

start_vars ==
    <<controller_configs, started, set_leverage_calls,
      set_position_mode_calls>>

vars == <<runner_vars, controller_vars, xarby_vars, config_vars, start_vars>>

\* what a step of one component leaves alone
outside_runner == <<controller_vars, xarby_vars, config_vars, start_vars>>
outside_controller == <<runner_vars, xarby_vars, config_vars, start_vars>>
outside_xarby == <<runner_vars, controller_vars, config_vars, start_vars>>
outside_config == <<runner_vars, controller_vars, xarby_vars, start_vars>>
outside_start == <<controller_vars, xarby_vars, config_vars>>

(***************************************************************************)
(* The runner's state as one record, so that each method is an operator    *)
(* from state to state and on_tick is their composition.                   *)
(***************************************************************************)
Self ==
    [cash_out_time |-> cash_out_time,
     cashing_out |-> cashing_out,
     mqtt_enabled |-> mqtt_enabled,
     last_performance_report_timestamp |-> last_performance_report_timestamp,
     current_timestamp |-> current_timestamp,
     controller_status |-> controller_status,
     manual_kill_switch |-> manual_kill_switch,
     executors |-> executors,
     app_stop_requests |-> app_stop_requests,
     calls |-> <<>>,
     controller_stops |-> {},
     stop_actions |-> <<>>,
     published |-> 0,
     last_publication |-> last_publication,
     manual_stop_issued |-> manual_stop_issued,
     deadline_stop_ticks |-> deadline_stop_ticks]

\* __init__: cash_out_time from the config and the wall clock
InitCashOutTime(ttc, now) ==
    IF Truthy(ttc) THEN Some(Seconds(ttc[1]) + now) ELSE None

\* controller.stop() and controller.start() of the host's controller base
controller_stop(status, c) == [status EXCEPT ![c] = TERMINATED]

controller_start(status, c) == [status EXCEPT ![c] = RUNNING]

\* StopExecutorAction(executor_id=executor.id, controller_id=executor.controller_id)
StopExecutorAction(executor) ==
    [executor_id |-> executor.id, controller_id |-> executor.controller_id]

RECURSIVE StopActionsFor(_)
StopActionsFor(execs) ==
    IF execs = <<>> THEN <<>>
    ELSE <<StopExecutorAction(Head(execs))>> \o StopActionsFor(Tail(execs))

\* executor ids named by a list of stop-actions
Targets(actions) == {actions[i].executor_id : i \in 1..Len(actions)}

\* executor_orchestrator.execute_actions for stop-actions: the request is
\* recorded and the orchestrator notes it on every executor still running
execute_actions(s, actions) ==
    [s EXCEPT
       !.stop_actions = @ \o actions,
       !.executors = [i \in 1..Len(@) |->
                        IF @[i].id \in Targets(actions) /\ @[i].status = RUNNING
                        THEN [@[i] EXCEPT !.stop_requested = TRUE]
                        ELSE @[i]]]

\* get_all_executors()
get_all_executors(s) == s.executors

\* get_executors_by_controller(controller_id)
get_executors_by_controller(s, c) ==
    SelectSeq(s.executors, LAMBDA e : e.controller_id = c)

\* filter_executors(executors, filter_func) is SelectSeq

Called(s, name) == [s EXCEPT !.calls = Append(@, name)]

\* Sequencing of two statements: F applied to the state that s denotes.
\* The state is computed once, however often F reads it.
Then(s, F(_)) == CHOOSE r \in {F(x) : x \in {s}} : TRUE

(***************************************************************************)
(* evaluate_cash_out_time                                                  *)
(***************************************************************************)
\* mutant: stop() is requested on every controller, whatever its status
RECURSIVE StopEveryController(_, _)
StopEveryController(s, c) ==
    IF c > NumControllers THEN s
    ELSE Then([s EXCEPT !.controller_status = controller_stop(@, c),
                        !.controller_stops = @ \cup {c}],
              LAMBDA t : StopEveryController(t, c + 1))

RECURSIVE StopRunningControllers(_, _)
StopRunningControllers(s, c) ==
    IF c > NumControllers THEN s
    ELSE Then(IF s.controller_status[c] = RUNNING
              THEN [s EXCEPT !.controller_status = controller_stop(@, c),
                             !.controller_stops = @ \cup {c}]
              ELSE s,
              LAMBDA t : StopRunningControllers(t, c + 1))

\* history: one more tick in which the deadline stopped a controller
\* (counted up to 2)
NoteDeadlineStops(s) ==
    IF s.controller_stops # {} /\ s.deadline_stop_ticks < 2
    THEN [s EXCEPT !.deadline_stop_ticks = @ + 1]
    ELSE s

\* mutant: cashing_out is assigned the outcome of the test at every call
evaluate_cash_out_time_Unlatched(s0) ==
    LET s == Called(s0, "evaluate_cash_out_time")
    IN IF /\ Truthy(s.cash_out_time)
          /\ s.current_timestamp >= s.cash_out_time[1]
          /\ ~s.cashing_out
       THEN Then(Then(StopRunningControllers(s, 1), NoteDeadlineStops),
                 LAMBDA t : [t EXCEPT !.cashing_out = TRUE])
       ELSE [s EXCEPT !.cashing_out = FALSE]

\* mutant: the controllers are stopped but cashing_out is not set
evaluate_cash_out_time_NotSet(s0) ==
    LET s == Called(s0, "evaluate_cash_out_time")
    IN IF /\ Truthy(s.cash_out_time)
          /\ s.current_timestamp >= s.cash_out_time[1]
          /\ ~s.cashing_out
       THEN Then(StopRunningControllers(s, 1), NoteDeadlineStops)
       ELSE s

evaluate_cash_out_time(s0) ==
    LET s == Called(s0, "evaluate_cash_out_time")
    IN IF /\ Truthy(s.cash_out_time)
          /\ s.current_timestamp >= s.cash_out_time[1]
          /\ ~s.cashing_out
       THEN Then(Then(StopRunningControllers(s, 1), NoteDeadlineStops),
                 LAMBDA t : [t EXCEPT !.cashing_out = TRUE])
       ELSE s

(***************************************************************************)
(* check_manual_cash_out                                                   *)
(***************************************************************************)
\* history: the kill switch of controller c has been acted on
NoteManualStop(s, c) == [s EXCEPT !.manual_stop_issued = @ \cup {c}]

\* mutant: the kill switch is acted on whatever the controller's status
ManualCashOutOne_AnyStatus(s, c) ==
    LET s1 == IF s.manual_kill_switch[c]
              THEN LET stopped == [s EXCEPT !.controller_status = controller_stop(@, c)]
                       executors_to_stop == get_executors_by_controller(stopped, c)
                   IN NoteManualStop(
                          execute_actions(stopped, StopActionsFor(executors_to_stop)), c)
              ELSE s
    IN IF ~s1.manual_kill_switch[c] /\ s1.controller_status[c] = TERMINATED
       THEN [s1 EXCEPT !.controller_status = controller_start(@, c)]
       ELSE s1

ManualCashOutOne(s, c) ==
    LET s1 == IF s.manual_kill_switch[c] /\ s.controller_status[c] = RUNNING
              THEN LET stopped == [s EXCEPT !.controller_status = controller_stop(@, c)]
                       executors_to_stop == get_executors_by_controller(stopped, c)
                   IN NoteManualStop(
                          execute_actions(stopped, StopActionsFor(executors_to_stop)), c)
              ELSE s
    IN IF ~s1.manual_kill_switch[c] /\ s1.controller_status[c] = TERMINATED
       THEN [s1 EXCEPT !.controller_status = controller_start(@, c)]
       ELSE s1

RECURSIVE ManualCashOutLoop(_, _)
ManualCashOutLoop(s, c) ==
    IF c > NumControllers THEN s
    ELSE Then(ManualCashOutOne(s, c), LAMBDA t : ManualCashOutLoop(t, c + 1))

check_manual_cash_out(s) ==
    ManualCashOutLoop(Called(s, "check_manual_cash_out"), 1)

(***************************************************************************)
(* check_executors_status                                                  *)
(***************************************************************************)
\* mutant: the executors that are trading are the ones stopped
check_executors_status_Trading(s0) ==
    LET s == Called(s0, "check_executors_status")
        active_executors ==
            SelectSeq(get_all_executors(s), LAMBDA e : e.status = RUNNING)
    IN IF active_executors = <<>>
       THEN [s EXCEPT !.app_stop_requests = @ + 1]
       ELSE LET non_trading_executors ==
                    SelectSeq(active_executors, LAMBDA e : e.is_trading)
            IN execute_actions(s, StopActionsFor(non_trading_executors))

\* mutant: the executors that never traded are left running
check_executors_status_NoPruning(s0) ==
    LET s == Called(s0, "check_executors_status")
        active_executors ==
            SelectSeq(get_all_executors(s), LAMBDA e : e.status = RUNNING)
    IN IF active_executors = <<>>
       THEN [s EXCEPT !.app_stop_requests = @ + 1]
       ELSE s

check_executors_status(s0) ==
    LET s == Called(s0, "check_executors_status")
        active_executors ==
            SelectSeq(get_all_executors(s), LAMBDA e : e.status = RUNNING)
    IN IF active_executors = <<>>
       THEN [s EXCEPT !.app_stop_requests = @ + 1]
       ELSE LET non_trading_executors ==
                    SelectSeq(active_executors, LAMBDA e : ~e.is_trading)
            IN execute_actions(s, StopActionsFor(non_trading_executors))

(***************************************************************************)
(* control_cash_out                                                        *)
(***************************************************************************)
\* mutant: the branch is taken on cashing_out as it was before the evaluation
control_cash_out_StaleFlag(s0) ==
    Then(evaluate_cash_out_time(s0),
         LAMBDA s : IF s0.cashing_out
                    THEN check_executors_status(s)
                    ELSE check_manual_cash_out(s))

\* mutant: the executors are checked before the cash-out has begun as well
control_cash_out_AlwaysCheck(s0) ==
    Then(evaluate_cash_out_time(s0),
         LAMBDA s : IF s.cashing_out
                    THEN check_executors_status(s)
                    ELSE Then(check_executors_status(s), check_manual_cash_out))

\* mutant: the kill switches are acted on while cashing out as well
control_cash_out_ManualToo(s0) ==
    Then(evaluate_cash_out_time(s0),
         LAMBDA s : IF s.cashing_out
                    THEN Then(check_executors_status(s), check_manual_cash_out)
                    ELSE check_manual_cash_out(s))

control_cash_out(s0) ==
    Then(evaluate_cash_out_time(s0),
         LAMBDA s : IF s.cashing_out
                    THEN check_executors_status(s)
                    ELSE check_manual_cash_out(s))

(***************************************************************************)
(* send_performance_report                                                 *)
(***************************************************************************)
\* self._pub(performance_reports): one publication at the current timestamp
Publish(s) == [s EXCEPT !.published = @ + 1,
                        !.last_publication = Some(s.current_timestamp)]

\* mutant: a report is published at every tick while the bus is enabled
send_performance_report_EveryTick(s0) ==
    LET s == Called(s0, "send_performance_report")
    IN IF s.mqtt_enabled
       THEN [Publish(s) EXCEPT
                 !.last_performance_report_timestamp = s.current_timestamp]
       ELSE s

send_performance_report(s0) ==
    LET s == Called(s0, "send_performance_report")
    IN IF /\ s.current_timestamp - s.last_performance_report_timestamp
                >= Seconds(performance_report_interval)
          /\ s.mqtt_enabled
       THEN [Publish(s) EXCEPT
                 !.last_performance_report_timestamp = s.current_timestamp]
       ELSE s

(***************************************************************************)
(* on_tick                                                                 *)
(***************************************************************************)
\* super().on_tick(): the host's part of the tick; what it does to executors
\* and configs is in the host actions below
base_on_tick(s) == Called(s, "super.on_tick")

on_tick(s) ==
    Then(Then(Then(s, base_on_tick), control_cash_out), send_performance_report)

(***************************************************************************)
(* Initial state: the runner just constructed and started, every           *)
(* controller started by the host, no executor yet.                        *)
(***************************************************************************)
RunnerInit ==
    /\ time_to_cash_out \in TimeToCashOutChoices
    /\ cash_out_time = InitCashOutTime(time_to_cash_out, StartTime)
    /\ cashing_out = FALSE
    /\ mqtt_enabled \in BOOLEAN
    /\ last_performance_report_timestamp = 0
    /\ current_timestamp = StartTime
    /\ controller_status = [c \in Controllers |-> RUNNING]
    /\ manual_kill_switch = [c \in Controllers |-> FALSE]
    /\ executors = <<>>
    /\ app_stop_requests = 0
    /\ calls = <<>>
    /\ controller_stops = {}
    /\ stop_actions = <<>>
    /\ published = 0
    /\ last_publication = None
    /\ manual_stop_issued = {}
    /\ deadline_stop_ticks = 0

\* no controller object is under study
ControllerAbsent ==
    /\ controller = None
    /\ price = 0
    /\ balance = 0
    /\ market_time = 0
    /\ executors_info = <<>>
    /\ returned_actions = <<>>
    /\ cycle_input = None

XarbyAbsent ==
    /\ active_buy_arbitrages = <<>>
    /\ closed_arbitrage_executors = <<>>
    /\ arbitrage_executors = <<>>
    /\ xarby_base_balance = 0
    /\ xarby_quote_balance = 0
    /\ xarby_price = 0
    /\ xarby_calls = <<>>
    /\ xarby_created = None
    /\ xarby_failure = None

ConfigAbsent ==
    /\ config_field = "position_size_quote"
    /\ raw_value = None
    /\ validated = None

\* start() is taken to have run, on controllers whose configs name no
\* connector
StartDone ==
    /\ controller_configs = <<>>
    /\ started = TRUE
    /\ set_leverage_calls = <<>>
    /\ set_position_mode_calls = <<>>

OthersAbsent == ConfigAbsent /\ StartDone

Init == RunnerInit /\ ControllerAbsent /\ XarbyAbsent /\ OthersAbsent

(***************************************************************************)
(* Actions                                                                 *)
(***************************************************************************)
\* the state after on_tick at clock reading now
Ticked(now) == on_tick([Self EXCEPT !.current_timestamp = now])

Commit(s) ==
    /\ cashing_out' = s.cashing_out
    /\ last_performance_report_timestamp' = s.last_performance_report_timestamp
    /\ current_timestamp' = s.current_timestamp
    /\ controller_status' = s.controller_status
    /\ executors' = s.executors
    /\ app_stop_requests' = s.app_stop_requests
    /\ calls' = s.calls
    /\ controller_stops' = s.controller_stops
    /\ stop_actions' = s.stop_actions
    /\ published' = s.published
    /\ last_publication' = s.last_publication
    /\ manual_stop_issued' = s.manual_stop_issued
    /\ deadline_stop_ticks' = s.deadline_stop_ticks
    /\ UNCHANGED <<time_to_cash_out, cash_out_time, mqtt_enabled, manual_kill_switch>>
    /\ UNCHANGED outside_runner

\* The clock advances by up to one second and calls on_tick.  Once the
\* application was asked to stop, the host stops the clock.
Tick ==
    /\ app_stop_requests = 0
    /\ \E d \in TickSizes :
          /\ current_timestamp + d <= MaxTime
          /\ \E s \in {Ticked(current_timestamp + d)} : Commit(s)

\* a host step leaves the runner's fields alone; the record of the last
\* on_tick is over
HostUnchanged ==
    /\ calls' = <<>>
    /\ controller_stops' = {}
    /\ stop_actions' = <<>>
    /\ published' = 0
    /\ UNCHANGED <<time_to_cash_out, cash_out_time, cashing_out, mqtt_enabled,
                   last_performance_report_timestamp, current_timestamp,
                   app_stop_requests, last_publication, deadline_stop_ticks>>
    /\ UNCHANGED outside_runner

\* the orchestrator executes a create-action of a running controller
CreateExecutor(c) ==
    /\ app_stop_requests = 0
    /\ Len(executors) < MaxExecutors
    /\ controller_status[c] = RUNNING
    /\ executors' = Append(executors,
           [id |-> Len(executors) + 1, controller_id |-> c,
            status |-> RUNNING, is_trading |-> FALSE,
            stop_requested |-> FALSE])
    /\ HostUnchanged
    /\ UNCHANGED <<controller_status, manual_kill_switch, manual_stop_issued>>

\* a running executor gets its first fill
ExecutorStartsTrading(i) ==
    /\ i <= Len(executors)
    /\ executors[i].status = RUNNING
    /\ ~executors[i].is_trading
    /\ executors' = [executors EXCEPT ![i].is_trading = TRUE]
    /\ HostUnchanged
    /\ UNCHANGED <<controller_status, manual_kill_switch, manual_stop_issued>>

Closed(e) == [e EXCEPT !.status = TERMINATED, !.is_trading = FALSE,
                       !.stop_requested = FALSE]

\* a trading executor completes its trade
ExecutorFinishes(i) ==
    /\ i <= Len(executors)
    /\ executors[i].status = RUNNING
    /\ executors[i].is_trading
    /\ executors' = [executors EXCEPT ![i] = Closed(@)]
    /\ HostUnchanged
    /\ UNCHANGED <<controller_status, manual_kill_switch, manual_stop_issued>>

\* an executor that received a stop-action stops
ExecutorStops(i) ==
    /\ i <= Len(executors)
    /\ executors[i].status = RUNNING
    /\ executors[i].stop_requested
    /\ executors' = [executors EXCEPT ![i] = Closed(@)]
    /\ HostUnchanged
    /\ UNCHANGED <<controller_status, manual_kill_switch, manual_stop_issued>>

\* the operator sets or clears a controller's manual kill switch
SetKillSwitch(c) ==
    /\ app_stop_requests = 0
    /\ manual_kill_switch' = [manual_kill_switch EXCEPT ![c] = ~@]
    /\ manual_stop_issued' =
          IF manual_kill_switch[c] THEN manual_stop_issued \ {c}
          ELSE manual_stop_issued
    /\ HostUnchanged
    /\ UNCHANGED <<controller_status, executors>>

\* The clock has reached the end of the modelled time span: MaxTime stands
\* for every later reading as well, and on_tick keeps being called.
LateTick ==
    /\ app_stop_requests = 0
    /\ current_timestamp = MaxTime
    /\ \E s \in {Ticked(MaxTime)} : Commit(s)

Executors == 1..MaxExecutors

(***************************************************************************)
(* ArbitrageController.  A decision cycle is one call of                   *)
(* determine_executor_actions; the host then executes what it returned.    *)
(* Amounts are whole numbers of quote units, times whole seconds.          *)
(***************************************************************************)
\* the values the config and the market are drawn from
TargetMaxExecutorsChoices == {1, 2}
ExecutorRefreshTimeChoices == {0, 1}
Prices == {1, 2}
Balances == {1, 2, 4}

ConnectorPair(connector_name, trading_pair) ==
    [connector_name |-> connector_name, trading_pair |-> trading_pair]

\* ArbitrageControllerConfig, the connectors and pairs at their defaults
ArbitrageControllerConfig(target_max_executors, executor_refresh_time) ==
    [id |-> "arbitrage",
     source_connector_name |-> "xrpl",
     source_trading_pair |-> "XRP-USD",
     dest_connector_name |-> "kucoin",
     dest_trading_pair |-> "XRP-USDC",
     position_size_quote |-> 2,
     min_profitability |-> "0.001",
     target_max_executors |-> target_max_executors,
     executor_refresh_time |-> executor_refresh_time]

\* ArbitrageController.__init__
ArbitrageController(config) ==
    [config |-> config,
     source_connector_name |-> config.source_connector_name,
     source_trading_pair |-> config.source_trading_pair,
     source_connector |-> ConnectorPair(config.source_connector_name,
                                        config.source_trading_pair),
     dest_connector_name |-> config.dest_connector_name,
     dest_trading_pair |-> config.dest_trading_pair,
     dest_connector |-> ConnectorPair(config.dest_connector_name,
                                      config.dest_trading_pair),
     position_size_quote |-> config.position_size_quote,
     min_profitability |-> config.min_profitability,
     running_executors |-> 0]

\* mutant: a needed amount equal to the balance is refused as well
get_executor_config_AtLeast(self, mid_price, quote_balance, now, raises) ==
    IF self.position_size_quote * mid_price >= quote_balance \/ raises
    THEN None
    ELSE Some([controller_id |-> self.config.id,
               timestamp |-> now,
               buying_market |-> ConnectorPair(self.source_connector_name,
                                               self.source_trading_pair),
               selling_market |-> ConnectorPair(self.dest_connector_name,
                                                self.dest_trading_pair),
               order_amount |-> self.position_size_quote,
               min_profitability |-> self.min_profitability])

\* get_executor_config, given the mid price of the source pair, the
\* available quote balance on the source connector, the host time, and
\* whether the ArbitrageExecutorConfig constructor raises
get_executor_config(self, mid_price, quote_balance, now, raises) ==
    IF self.position_size_quote * mid_price > quote_balance
    THEN None
    ELSE IF raises
         THEN None
         ELSE Some([controller_id |-> self.config.id,
                    timestamp |-> now,
                    buying_market |-> ConnectorPair(self.source_connector_name,
                                                    self.source_trading_pair),
                    selling_market |-> ConnectorPair(self.dest_connector_name,
                                                     self.dest_trading_pair),
                    order_amount |-> self.position_size_quote,
                    min_profitability |-> self.min_profitability])

\* running_executors_count: the executors of the snapshot that satisfy
\* "not x.is_active"
running_executors_count(self, infos) ==
    Len(SelectSeq(infos, LAMBDA x : ~x.is_active))

CreateExecutorAction(executor_config, controller_id) ==
    [kind |-> "create", executor_config |-> executor_config,
     controller_id |-> controller_id]

\* mutant: the count is not consulted
create_actions_proposal_Uncapped(self, mid_price, quote_balance, now, raises, infos) ==
    LET config == get_executor_config(self, mid_price, quote_balance,
                                      now, raises)
    IN IF config # None
       THEN <<CreateExecutorAction(config, self.config.id)>>
       ELSE <<>>

\* create_actions_proposal.  It evaluates get_executor_config() twice: the
\* first result is tested, the second goes into the action.  Each
\* evaluation asks the host for the price and the balance: first is what
\* the host answers the first time, second what it answers the second time.
create_actions_proposal_reads(self, first, second, now, raises, infos) ==
    IF running_executors_count(self, infos) < self.config.target_max_executors
    THEN LET config == get_executor_config(self, first.price, first.balance,
                                           now, raises)
         IN IF config # None
            THEN <<CreateExecutorAction(
                       get_executor_config(self, second.price, second.balance,
                                           now, raises),
                       self.config.id)>>
            ELSE <<>>
    ELSE <<>>

\* create_actions_proposal while the host's answers do not change
create_actions_proposal(self, mid_price, quote_balance, now, raises, infos) ==
    create_actions_proposal_reads(
        self, [price |-> mid_price, balance |-> quote_balance],
        [price |-> mid_price, balance |-> quote_balance], now, raises, infos)

RECURSIVE RefreshActionsFor(_, _)
RefreshActionsFor(self, execs) ==
    IF execs = <<>> THEN <<>>
    ELSE <<[kind |-> "stop", controller_id |-> self.config.id,
            executor_id |-> Head(execs).id]>>
         \o RefreshActionsFor(self, Tail(execs))

\* mutant: an executor is refreshed as soon as its age reaches the threshold
executors_to_refresh_AtThreshold(self, now, infos) ==
    RefreshActionsFor(self,
        SelectSeq(infos,
                  LAMBDA x : /\ ~x.is_trading
                             /\ x.is_active
                             /\ now - x.timestamp >= self.config.executor_refresh_time))

executors_to_refresh(self, now, infos) ==
    RefreshActionsFor(self,
        SelectSeq(infos,
                  LAMBDA x : /\ ~x.is_trading
                             /\ x.is_active
                             /\ now - x.timestamp > self.config.executor_refresh_time))

stop_actions_proposal(self, now, infos) == executors_to_refresh(self, now, infos)

\* mutant: the stop-actions are put first
determine_executor_actions_StopsFirst(self, mid_price, quote_balance, now, raises, infos) ==
    stop_actions_proposal(self, now, infos)
        \o create_actions_proposal(self, mid_price, quote_balance, now, raises, infos)

determine_executor_actions(self, mid_price, quote_balance, now, raises, infos) ==
    create_actions_proposal(self, mid_price, quote_balance, now, raises, infos)
        \o stop_actions_proposal(self, now, infos)

\* mutant: the count is stored in the running_executors field
AfterDecisionCycle_Counted(self, infos) ==
    [self EXCEPT !.running_executors = running_executors_count(self, infos)]

\* the controller object after a decision cycle: no method of the cycle
\* assigns a field of self (running_executors_count binds a local name)
AfterDecisionCycle(self, infos) == self

\* the runner's fields while a controller alone is under study
RunnerAbsent ==
    /\ time_to_cash_out = None
    /\ cash_out_time = None
    /\ cashing_out = FALSE
    /\ mqtt_enabled = FALSE
    /\ last_performance_report_timestamp = 0
    /\ current_timestamp = StartTime
    /\ controller_status = [c \in Controllers |-> RUNNING]
    /\ manual_kill_switch = [c \in Controllers |-> FALSE]
    /\ executors = <<>>
    /\ app_stop_requests = 0
    /\ calls = <<>>
    /\ controller_stops = {}
    /\ stop_actions = <<>>
    /\ published = 0
    /\ last_publication = None
    /\ manual_stop_issued = {}
    /\ deadline_stop_ticks = 0

ControllerInit ==
    /\ \E target \in TargetMaxExecutorsChoices, refresh \in ExecutorRefreshTimeChoices :
          controller = ArbitrageController(ArbitrageControllerConfig(target, refresh))
    /\ price \in Prices
    /\ balance \in Balances
    /\ market_time = 0
    /\ executors_info = <<>>
    /\ returned_actions = <<>>
    /\ cycle_input = None

InitController ==
    RunnerAbsent /\ ControllerInit /\ XarbyAbsent /\ OthersAbsent

\* the executors the orchestrator starts for the create-actions in acts
RECURSIVE Created(_, _, _)
Created(acts, next_id, now) ==
    IF acts = <<>> THEN <<>>
    ELSE IF Head(acts).kind = "create" /\ Head(acts).executor_config # None
         THEN <<[id |-> next_id, is_active |-> TRUE, is_trading |-> FALSE,
                 timestamp |-> now]>>
              \o Created(Tail(acts), next_id + 1, now)
         ELSE Created(Tail(acts), next_id, now)

\* one decision cycle; the orchestrator executes the create-actions
DecisionCycle ==
    \E raises \in BOOLEAN :
       \E acts \in {determine_executor_actions(controller, price, balance,
                                               market_time, raises,
                                               executors_info)} :
          /\ Len(executors_info) + Len(Created(acts, 1, market_time)) <= MaxInfo
          /\ returned_actions' = acts
          /\ cycle_input' = Some(raises)
          /\ controller' = AfterDecisionCycle(controller, executors_info)
          /\ executors_info' =
                executors_info
                    \o Created(acts, Len(executors_info) + 1, market_time)
          /\ UNCHANGED <<price, balance, market_time>>
          /\ UNCHANGED outside_controller

\* one decision cycle during which the host's price and balance may change
\* between the two evaluations of get_executor_config(): the first reads
\* price and balance, the second reads p and b, which the host then shows
RacingDecisionCycle ==
    \E raises \in BOOLEAN, p \in Prices, b \in Balances :
       \E acts \in {create_actions_proposal_reads(
                        controller, [price |-> price, balance |-> balance],
                        [price |-> p, balance |-> b], market_time, raises,
                        executors_info)
                    \o stop_actions_proposal(controller, market_time,
                                             executors_info)} :
          /\ Len(executors_info) + Len(Created(acts, 1, market_time)) <= MaxInfo
          /\ returned_actions' = acts
          /\ cycle_input' = Some(raises)
          /\ controller' = AfterDecisionCycle(controller, executors_info)
          /\ executors_info' =
                executors_info
                    \o Created(acts, Len(executors_info) + 1, market_time)
          /\ price' = p
          /\ balance' = b
          /\ UNCHANGED market_time
          /\ UNCHANGED outside_controller

ControllerHostUnchanged ==
    /\ returned_actions' = <<>>
    /\ cycle_input' = None
    /\ UNCHANGED controller
    /\ UNCHANGED outside_controller

\* an executor of the snapshot gets its first fill
InfoStartsTrading(i) ==
    /\ i <= Len(executors_info)
    /\ executors_info[i].is_active
    /\ ~executors_info[i].is_trading
    /\ executors_info' = [executors_info EXCEPT ![i].is_trading = TRUE]
    /\ UNCHANGED <<price, balance, market_time>>
    /\ ControllerHostUnchanged

\* an executor of the snapshot ends: completed, stopped or failed
InfoCloses(i) ==
    /\ i <= Len(executors_info)
    /\ executors_info[i].is_active
    /\ executors_info' = [executors_info EXCEPT ![i].is_active = FALSE,
                                                 ![i].is_trading = FALSE]
    /\ UNCHANGED <<price, balance, market_time>>
    /\ ControllerHostUnchanged

\* a second passes on the market data provider's clock
MarketClockAdvances ==
    /\ market_time < MaxMarketTime
    /\ market_time' = market_time + 1
    /\ UNCHANGED <<price, balance, executors_info>>
    /\ ControllerHostUnchanged

\* the mid price and the available balance change
MarketMoves ==
    /\ \E p \in Prices, b \in Balances :
          /\ <<p, b>> # <<price, balance>>
          /\ price' = p
          /\ balance' = b
    /\ UNCHANGED <<market_time, executors_info>>
    /\ ControllerHostUnchanged

Infos == 1..MaxInfo

(***************************************************************************)
(* Xarby, the standalone strategy.  The strategy object is a record; the   *)
(* ArbitrageExecutor objects live in executors and the lists hold their    *)
(* positions there.                                                        *)
(***************************************************************************)
\* XarbyConfig: the pairs at their defaults
XarbyConfig ==
    [source_connector_name |-> "binance_paper_trade",
     source_trading_pair |-> "XRP-USDT",
     dest_connector_name |-> "kucoin_paper_trade",
     dest_trading_pair |-> "XRP-USDT",
     position_size_quote |-> 2,
     min_profitability |-> "0.0001"]

\* Xarby.__init__, with the host state the calls read
Xarby(config) ==
    [config |-> config,
     active_buy_arbitrages |-> <<>>,
     closed_arbitrage_executors |-> <<>>,
     min_profitability |-> config.min_profitability,
     exchange_pair_1 |-> ConnectorPair(config.source_connector_name,
                                       config.source_trading_pair),
     exchange_pair_2 |-> ConnectorPair(config.dest_connector_name,
                                       config.dest_trading_pair),
     order_amount |-> config.position_size_quote]

\* the strategy object and what it can reach, as the calls see them
XarbySelf ==
    [strategy |-> [Xarby(XarbyConfig) EXCEPT
                      !.active_buy_arbitrages = active_buy_arbitrages,
                      !.closed_arbitrage_executors = closed_arbitrage_executors],
     executors |-> arbitrage_executors,
     base_balance |-> xarby_base_balance,
     quote_balance |-> xarby_quote_balance,
     price |-> xarby_price,
     calls |-> <<>>,
     created |-> None]

\* list.remove(x): the list without its first entry equal to x
RECURSIVE ListRemove(_, _)
ListRemove(list, x) ==
    IF list = <<>> THEN <<>>
    ELSE IF Head(list) = x THEN Tail(list)
         ELSE <<Head(list)>> \o ListRemove(Tail(list), x)

\* the for loop of cleanup_arbitrages from the iterator's position i: the
\* iterator reads the entry at its position in the list as it is then, and
\* moves on by one whatever the body removed
RECURSIVE CleanupFrom(_, _)
CleanupFrom(x, i) ==
    IF i > Len(x.strategy.active_buy_arbitrages) THEN x
    ELSE LET arbitrage == x.strategy.active_buy_arbitrages[i]
         IN IF x.executors[arbitrage].is_closed
            THEN CleanupFrom(
                   [x EXCEPT
                      !.calls = Append(@, "closed_arbitrage_executors.append"),
                      !.strategy.closed_arbitrage_executors =
                          Append(@, arbitrage),
                      !.strategy.active_buy_arbitrages =
                          ListRemove(@, arbitrage)],
                   i + 1)
            ELSE CleanupFrom(x, i + 1)

cleanup_arbitrages(x0) ==
    LET x == [x0 EXCEPT !.calls = Append(@, "cleanup_arbitrages")]
    IN CleanupFrom(x, 1)

\* "BASE-QUOTE".split("-")
Split(trading_pair) ==
    IF trading_pair = "XRP-USDT" THEN <<"XRP", "USDT">>
    ELSE <<trading_pair>>

\* connectors[connector_name].get_available_balance(asset)
get_available_balance(x, connector_name, asset) ==
    IF connector_name = x.strategy.exchange_pair_2.connector_name
          /\ asset = "XRP"
    THEN x.base_balance
    ELSE IF connector_name = x.strategy.exchange_pair_1.connector_name
               /\ asset = "USDT"
         THEN x.quote_balance
         ELSE 0

\* the steps of create_arbitrage_executor that call the host and can raise
FailurePoints ==
    {"none", "base_balance", "price", "quote_balance", "config",
     "executor", "start"}

ArbitrageExecutorConfig(buying_market, selling_market, order_amount, min_profitability) ==
    [buying_market |-> buying_market, selling_market |-> selling_market,
     order_amount |-> order_amount, min_profitability |-> min_profitability]

ArbitrageExecutor(config) ==
    [config |-> config, started |-> FALSE, is_closed |-> FALSE]

\* mutant: the base-asset balance of the selling exchange is not checked
create_arbitrage_executor_NoBaseCheck(x0, buying_exchange_pair, selling_exchange_pair, failure) ==
    LET x == [x0 EXCEPT !.calls = Append(@, "create_arbitrage_executor")]
        quote_asset_for_buying_exchange ==
            get_available_balance(x, buying_exchange_pair.connector_name,
                                  Split(buying_exchange_pair.trading_pair)[2])
    IN IF failure # "none" THEN x
       ELSE IF x.strategy.order_amount * x.price
                   > quote_asset_for_buying_exchange THEN x
       ELSE [x EXCEPT
               !.executors =
                   Append(@, [ArbitrageExecutor(ArbitrageExecutorConfig(
                                 buying_exchange_pair, selling_exchange_pair,
                                 x.strategy.order_amount,
                                 x.strategy.min_profitability))
                              EXCEPT !.started = TRUE]),
               !.created = Some(Len(x.executors) + 1)]

\* create_arbitrage_executor; every raise is caught by the inner or the
\* outer except clause, after which the call returns None
create_arbitrage_executor(x0, buying_exchange_pair, selling_exchange_pair, failure) ==
    LET x == [x0 EXCEPT !.calls = Append(@, "create_arbitrage_executor")]
        base_asset_for_selling_exchange ==
            get_available_balance(x, selling_exchange_pair.connector_name,
                                  Split(selling_exchange_pair.trading_pair)[1])
        quote_asset_for_buying_exchange ==
            get_available_balance(x, buying_exchange_pair.connector_name,
                                  Split(buying_exchange_pair.trading_pair)[2])
        arbitrage_executor ==
            ArbitrageExecutor(ArbitrageExecutorConfig(
                buying_exchange_pair, selling_exchange_pair,
                x.strategy.order_amount, x.strategy.min_profitability))
    IN IF failure = "base_balance" THEN x
       ELSE IF x.strategy.order_amount > base_asset_for_selling_exchange
       THEN x
       ELSE IF failure \in {"price", "quote_balance"} THEN x
       ELSE IF x.strategy.order_amount * x.price
                   > quote_asset_for_buying_exchange
       THEN x
       ELSE IF failure \in {"config", "executor"} THEN x
       ELSE IF failure = "start"
       THEN [x EXCEPT !.executors = Append(@, arbitrage_executor)]
       ELSE [x EXCEPT
               !.executors =
                   Append(@, [arbitrage_executor EXCEPT !.started = TRUE]),
               !.created = Some(Len(x.executors) + 1)]

\* mutant: the executor is created before the closed ones are moved
Xarby_on_tick_CreateFirst(x0, failure) ==
    LET x1 == IF Len(x0.strategy.active_buy_arbitrages) < 1
              THEN create_arbitrage_executor(x0, x0.strategy.exchange_pair_1,
                                             x0.strategy.exchange_pair_2,
                                             failure)
              ELSE x0
        x2 == IF x1.created # None
              THEN [x1 EXCEPT !.strategy.active_buy_arbitrages =
                                  Append(@, x1.created[1])]
              ELSE x1
    IN cleanup_arbitrages(x2)

\* mutant: an executor is created whether or not one is active
Xarby_on_tick_Unguarded(x0, failure) ==
    LET x1 == cleanup_arbitrages(x0)
        x2 == create_arbitrage_executor(x1, x1.strategy.exchange_pair_1,
                                        x1.strategy.exchange_pair_2, failure)
    IN IF x2.created # None
       THEN [x2 EXCEPT !.strategy.active_buy_arbitrages =
                           Append(@, x2.created[1])]
       ELSE x2

\* Xarby.on_tick
Xarby_on_tick(x0, failure) ==
    LET x1 == cleanup_arbitrages(x0)
    IN IF Len(x1.strategy.active_buy_arbitrages) < 1
       THEN LET x2 == create_arbitrage_executor(
                          x1, x1.strategy.exchange_pair_1,
                          x1.strategy.exchange_pair_2, failure)
            IN IF x2.created # None
               THEN [x2 EXCEPT !.strategy.active_buy_arbitrages =
                                   Append(@, x2.created[1])]
               ELSE x2
       ELSE x1

XarbyInit ==
    /\ active_buy_arbitrages = Xarby(XarbyConfig).active_buy_arbitrages
    /\ closed_arbitrage_executors = Xarby(XarbyConfig).closed_arbitrage_executors
    /\ arbitrage_executors = <<>>
    /\ xarby_base_balance \in Balances
    /\ xarby_quote_balance \in Balances
    /\ xarby_price \in Prices
    /\ xarby_calls = <<>>
    /\ xarby_created = None
    /\ xarby_failure = None

InitXarby == RunnerAbsent /\ ControllerAbsent /\ XarbyInit /\ OthersAbsent

\* the variables take what a call left in x
XarbyCommit(x) ==
    /\ Len(x.executors) <= MaxArbitrages
    /\ active_buy_arbitrages' = x.strategy.active_buy_arbitrages
    /\ closed_arbitrage_executors' = x.strategy.closed_arbitrage_executors
    /\ arbitrage_executors' = x.executors
    /\ xarby_calls' = x.calls
    /\ xarby_created' = x.created
    /\ UNCHANGED <<xarby_base_balance, xarby_quote_balance, xarby_price>>
    /\ UNCHANGED outside_xarby

\* one clock tick of the standalone strategy
XarbyTick ==
    \E failure \in FailurePoints :
       \E x \in {Xarby_on_tick(XarbySelf, failure)} :
          /\ XarbyCommit(x)
          /\ xarby_failure' = IF "create_arbitrage_executor" \in
                                     {x.calls[k] : k \in 1..Len(x.calls)}
                              THEN Some(failure) ELSE None

XarbyHostUnchanged ==
    /\ xarby_calls' = <<>>
    /\ xarby_created' = None
    /\ xarby_failure' = None
    /\ UNCHANGED <<active_buy_arbitrages, closed_arbitrage_executors>>
    /\ UNCHANGED outside_xarby

\* a started executor completes or fails: its is_closed becomes true
ArbitrageCloses(i) ==
    /\ i <= Len(arbitrage_executors)
    /\ arbitrage_executors[i].started
    /\ ~arbitrage_executors[i].is_closed
    /\ arbitrage_executors' =
          [arbitrage_executors EXCEPT ![i].is_closed = TRUE]
    /\ UNCHANGED <<xarby_base_balance, xarby_quote_balance, xarby_price>>
    /\ XarbyHostUnchanged

\* the balances and the mid price change
XarbyMarketMoves ==
    /\ \E b \in Balances, q \in Balances, p \in Prices :
          /\ <<b, q, p>> # <<xarby_base_balance, xarby_quote_balance, xarby_price>>
          /\ xarby_base_balance' = b
          /\ xarby_quote_balance' = q
          /\ xarby_price' = p
    /\ UNCHANGED arbitrage_executors
    /\ XarbyHostUnchanged

Arbitrages == 1..MaxArbitrages

\* cleanup_arbitrages called on its own, on any active list: the lists of
\* up to MaxArbitrages distinct started executors, closed or not, in any
\* order
CleanupInit ==
    /\ \E n \in 0..MaxArbitrages :
          /\ arbitrage_executors \in
                [1..n -> {[ArbitrageExecutor(ArbitrageExecutorConfig(
                              Xarby(XarbyConfig).exchange_pair_1,
                              Xarby(XarbyConfig).exchange_pair_2,
                              Xarby(XarbyConfig).order_amount,
                              Xarby(XarbyConfig).min_profitability))
                           EXCEPT !.started = TRUE, !.is_closed = c] :
                          c \in BOOLEAN}]
          /\ active_buy_arbitrages \in
                {l \in [1..n -> 1..n] : \A i, j \in 1..n : l[i] = l[j] => i = j}
    /\ closed_arbitrage_executors = <<>>
    /\ xarby_base_balance = 0
    /\ xarby_quote_balance = 0
    /\ xarby_price = 0
    /\ xarby_calls = <<>>
    /\ xarby_created = None
    /\ xarby_failure = None

InitCleanup ==
    RunnerAbsent /\ ControllerAbsent /\ CleanupInit /\ OthersAbsent

Cleanup ==
    \E x \in {cleanup_arbitrages(XarbySelf)} :
       /\ XarbyCommit(x)
       /\ xarby_failure' = None

(***************************************************************************)
(* ArbitrageControllerConfig.validate_decimal_fields.  A Python value is a *)
(* record tagged with its type; a str is its sequence of characters.       *)
(***************************************************************************)
\* the characters strings are made of: digits, the point, the sign, and a
\* character no numeral contains
Chars == {"0", "1", "5", ".", "-", "x"}
DigitChars == {"0", "1", "5"}
DigitValue(c) == CASE c = "0" -> 0 [] c = "1" -> 1 [] c = "5" -> 5

Strings == UNION {[1..n -> Chars] : n \in 0..MaxChars}

PyStr(chars) == [type |-> "str", chars |-> chars]
PyInt(value) == [type |-> "int", value |-> value]
PyFloat(repr) == [type |-> "float", repr |-> repr]
PyNone == [type |-> "NoneType"]
\* a Decimal: sign (1 for negative), coefficient and exponent
PyDecimal(sign, coefficient, exponent) ==
    [type |-> "Decimal", sign |-> sign, coefficient |-> coefficient,
     exponent |-> exponent]
InvalidOperation == [type |-> "raised", exception |-> "InvalidOperation"]

\* int(digits)
RECURSIVE DigitsToInt(_)
DigitsToInt(digits) ==
    IF digits = <<>> THEN 0
    ELSE 10 * DigitsToInt(SubSeq(digits, 1, Len(digits) - 1))
         + DigitValue(digits[Len(digits)])

\* Decimal(v) for a str v: an optional sign, then digits with at most one
\* point among them; the coefficient is int(intpart + fracpart) and the
\* exponent is minus the length of fracpart; any other string raises
Decimal(chars) ==
    LET sign == IF chars # <<>> /\ chars[1] = "-" THEN 1 ELSE 0
        body == IF sign = 1 THEN Tail(chars) ELSE chars
        points == {k \in 1..Len(body) : body[k] = "."}
        point == IF points = {} THEN Len(body) + 1
                 ELSE CHOOSE k \in points : TRUE
        intpart == SubSeq(body, 1, point - 1)
        fracpart == SubSeq(body, point + 1, Len(body))
        digits == intpart \o fracpart
    IN IF /\ Cardinality(points) <= 1
          /\ digits # <<>>
          /\ \A k \in 1..Len(digits) : digits[k] \in DigitChars
       THEN PyDecimal(sign, DigitsToInt(digits), 0 - Len(fracpart))
       ELSE InvalidOperation

\* mutant: the empty string is handed to Decimal like any other
validate_decimal_fields_NoEmptyCase(v) ==
    IF v.type = "str" THEN Decimal(v.chars) ELSE v

\* mutant: a value that is not a string is replaced by None
validate_decimal_fields_DropsOthers(v) ==
    IF v.type = "str"
    THEN IF v.chars = <<>> THEN PyNone ELSE Decimal(v.chars)
    ELSE PyNone

validate_decimal_fields(v) ==
    IF v.type = "str"
    THEN IF v.chars = <<>> THEN PyNone ELSE Decimal(v.chars)
    ELSE v

\* the fields the validator is registered for
ValidatedFields == {"position_size_quote", "min_profitability"}

\* the values a field can be supplied with
RawValues ==
    {PyStr(s) : s \in Strings}
        \cup {PyInt(0), PyInt(20), PyFloat("0.001"), PyDecimal(0, 15, 0 - 1),
              PyNone}

ConfigInit ==
    /\ config_field \in ValidatedFields
    /\ raw_value \in RawValues
    /\ validated = None

InitConfig ==
    /\ RunnerAbsent /\ ControllerAbsent /\ XarbyAbsent /\ StartDone
    /\ ConfigInit

\* pydantic runs the validator on the supplied value
Validate ==
    /\ validated = None
    /\ validated' = Some(validate_decimal_fields(raw_value))
    /\ UNCHANGED <<config_field, raw_value>>
    /\ UNCHANGED outside_config

(***************************************************************************)
(* GenericV2StrategyWithCashOut.start and apply_initial_setting.  A config *)
(* dict is a record of Optional values: None for a key the dict lacks.     *)
(***************************************************************************)
ConnectorNames == {"binance", "binance_perpetual", "bybit_perpetual"}
\* the host's is_perpetual: whether the connector's name contains
\* "perpetual"
is_perpetual(connector_name) ==
    connector_name \in {"binance_perpetual", "bybit_perpetual"}

PositionModes == {"HEDGE", "ONEWAY"}

\* controller.config.dict(): a connector_name comes with a trading_pair
ConfigDicts ==
    {[connector_name |-> cn,
      trading_pair |-> IF cn = None THEN None ELSE Some("BTC-USDT"),
      position_mode |-> pm,
      leverage |-> lv] :
        cn \in {None} \cup {Some(c) : c \in ConnectorNames},
        pm \in {None} \cup {Some(m) : m \in PositionModes},
        lv \in {None, Some(20)}}

\* d[key] = value for a dict d held as the sequence of its items
RECURSIVE DictSet(_, _, _)
DictSet(d, key, value) ==
    IF d = <<>> THEN <<[key |-> key, value |-> value]>>
    ELSE IF Head(d).key = key
         THEN <<[key |-> key, value |-> value]>> \o Tail(d)
         ELSE <<Head(d)>> \o DictSet(Tail(d), key, value)

\* the body of the first loop, for one controller's config dict
InitialSettingOne(s, config_dict) ==
    IF config_dict.connector_name # None
          /\ is_perpetual(config_dict.connector_name[1])
    THEN LET s1 == IF config_dict.position_mode # None
                   THEN [s EXCEPT !.connectors_position_mode =
                            DictSet(@, config_dict.connector_name[1],
                                    config_dict.position_mode[1])]
                   ELSE s
         IN IF config_dict.leverage # None
            THEN IF config_dict.trading_pair = None
                 THEN [s1 EXCEPT !.raised = TRUE]
                 ELSE [s1 EXCEPT !.set_leverage_calls =
                          Append(@, [connector_name |->
                                         config_dict.connector_name[1],
                                     leverage |-> config_dict.leverage[1],
                                     trading_pair |->
                                         config_dict.trading_pair[1]])]
            ELSE s1
    ELSE s

\* the first loop, over self.controllers.items() from the i-th on
RECURSIVE InitialSettingLoop(_, _, _)
InitialSettingLoop(s, configs, i) ==
    IF i > Len(configs) \/ s.raised THEN s
    ELSE \* one evaluation of the body, then the rest of the loop
         CHOOSE r \in {InitialSettingLoop(s1, configs, i + 1) :
                          s1 \in {InitialSettingOne(s, configs[i])}} : TRUE

\* the second loop: one set_position_mode per item of the dict
RECURSIVE PositionModeCalls(_)
PositionModeCalls(d) ==
    IF d = <<>> THEN <<>>
    ELSE <<[connector_name |-> Head(d).key, position_mode |-> Head(d).value]>>
         \o PositionModeCalls(Tail(d))

InitialSetting ==
    [connectors_position_mode |-> <<>>, set_leverage_calls |-> <<>>,
     set_position_mode_calls |-> <<>>, raised |-> FALSE]

\* mutant: set_position_mode is requested in the first loop, once for each
\* controller
apply_initial_setting_PerController(configs) ==
    LET s == InitialSettingLoop(InitialSetting, configs, 1)
        named == SelectSeq(configs,
                           LAMBDA c : /\ c.connector_name # None
                                      /\ is_perpetual(c.connector_name[1])
                                      /\ c.position_mode # None)
    IN [s EXCEPT !.set_position_mode_calls =
            [k \in 1..Len(named) |->
                [connector_name |-> named[k].connector_name[1],
                 position_mode |-> named[k].position_mode[1]]]]

apply_initial_setting(configs) ==
    LET s == InitialSettingLoop(InitialSetting, configs, 1)
    IN IF s.raised THEN s
       ELSE [s EXCEPT !.set_position_mode_calls =
                PositionModeCalls(s.connectors_position_mode)]

StartInit ==
    /\ controller_configs \in [Controllers -> ConfigDicts]
    /\ started = FALSE
    /\ set_leverage_calls = <<>>
    /\ set_position_mode_calls = <<>>

InitStart ==
    /\ RunnerAbsent /\ ControllerAbsent /\ XarbyAbsent /\ ConfigAbsent
    /\ StartInit

\* start(clock, timestamp), called once by the host before the first tick
Start ==
    /\ ~started
    /\ \E s \in {apply_initial_setting(controller_configs)} :
          /\ set_leverage_calls' = set_leverage_calls \o s.set_leverage_calls
          /\ set_position_mode_calls' =
                set_position_mode_calls \o s.set_position_mode_calls
    /\ started' = TRUE
    /\ UNCHANGED controller_configs
    /\ UNCHANGED runner_vars
    /\ UNCHANGED outside_start

\* the clock ticks once the strategy is started
StartedTick == started /\ Tick

(***************************************************************************)
(* Specifications.  Each runs the same on_tick against a different part of *)
(* what the host can do between ticks.                                     *)
(***************************************************************************)
\* cash-out supervision: executors are created, fill, finish and stop
Next ==
    \/ Tick
    \/ \E c \in Controllers : CreateExecutor(c)
    \/ \E i \in Executors : ExecutorStartsTrading(i)
    \/ \E i \in Executors : ExecutorFinishes(i)
    \/ \E i \in Executors : ExecutorStops(i)

Spec == Init /\ [][Next]_vars

\* manual kill switches: the operator edits them while executors come and go
NextManual ==
    \/ Tick
    \/ \E c \in Controllers : CreateExecutor(c)
    \/ \E i \in Executors : ExecutorStops(i)
    \/ \E c \in Controllers : SetKillSwitch(c)

InitNoBus == Init /\ ~mqtt_enabled

SpecManual == InitNoBus /\ [][NextManual]_vars

\* cash-out to completion: ticks keep occurring, an executor that was asked
\* to stop stops, a trading executor finishes
NextLive ==
    \/ Next
    \/ LateTick

Fairness ==
    /\ WF_vars(Tick \/ LateTick)
    /\ \A i \in Executors : WF_vars(ExecutorFinishes(i))
    /\ \A i \in Executors : WF_vars(ExecutorStops(i))

SpecLive == InitNoBus /\ [][NextLive]_vars /\ Fairness

\* the arbitrage controller under a host that executes what it returns
NextController ==
    \/ DecisionCycle
    \/ \E i \in Infos : InfoStartsTrading(i)
    \/ \E i \in Infos : InfoCloses(i)
    \/ MarketClockAdvances
    \/ MarketMoves

SpecController == InitController /\ [][NextController]_vars

\* the arbitrage controller under a host whose price and balance can change
\* within a decision cycle
NextControllerRacing ==
    \/ RacingDecisionCycle
    \/ \E i \in Infos : InfoStartsTrading(i)
    \/ \E i \in Infos : InfoCloses(i)
    \/ MarketClockAdvances
    \/ MarketMoves

SpecControllerRacing == InitController /\ [][NextControllerRacing]_vars

\* the standalone strategy under its clock, its executors and the market
NextXarby ==
    \/ XarbyTick
    \/ \E i \in Arbitrages : ArbitrageCloses(i)
    \/ XarbyMarketMoves

SpecXarby == InitXarby /\ [][NextXarby]_vars

\* cleanup_arbitrages on any active list
NextCleanup ==
    \/ Cleanup
    \/ \E i \in Arbitrages : ArbitrageCloses(i)

SpecCleanup == InitCleanup /\ [][NextCleanup]_vars

\* validation of one supplied value
NextConfig == Validate

SpecConfig == InitConfig /\ [][NextConfig]_vars

\* start(), then ticks
NextStart == Start \/ StartedTick

SpecStart == InitStart /\ [][NextStart]_vars

(***************************************************************************)
(* Properties                                                              *)
(***************************************************************************)
\* the step is an on_tick
IsTick == calls' # <<>>

RunningExecutors == {i \in 1..Len(executors) : executors[i].status = RUNNING}

\* how many of the stop-actions in acts name executor i
StopCount(acts, i) ==
    Cardinality({k \in 1..Len(acts) : acts[k].executor_id = i})

\* C1: cashing_out starts false and, once true, is never set back to false
\* (so it changes from false to true at most once).
C1_CashingOutSticky ==
    /\ ~cashing_out
    /\ [][cashing_out => cashing_out']_vars

\* an on_tick has run after the one that began the cash-out, and
\* cashing_out is still true
C1_Witness ==
    /\ cashing_out
    /\ calls # <<>>
    /\ controller_stops = {}
    /\ deadline_stop_ticks = 1

\* C2: once cashing_out is true, an on_tick (and so its call to
\* evaluate_cash_out_time), at any later timestamp, stops no controller and
\* leaves cashing_out true; the deadline stops controllers in at most one
\* tick of a run.
C2_EvaluateIdempotent ==
    /\ [][(cashing_out /\ IsTick) => (cashing_out' /\ controller_stops' = {})]_vars
    /\ [](deadline_stop_ticks <= 1)

\* evaluate_cash_out_time was called again past the deadline after the
\* deadline had stopped the controllers
C2_Witness ==
    /\ deadline_stop_ticks = 1
    /\ calls # <<>>
    /\ calls[2] = "evaluate_cash_out_time"
    /\ controller_stops = {}
    /\ current_timestamp > cash_out_time[1]

\* C3: in an on_tick with a deadline configured and reached and cashing_out
\* false, evaluate_cash_out_time stops exactly the RUNNING controllers and
\* sets cashing_out; otherwise it stops none and leaves cashing_out as it is.
C3_DeadlineStopsRunning ==
    [][IsTick =>
        IF /\ cash_out_time # None
           /\ current_timestamp' >= cash_out_time[1]
           /\ ~cashing_out
        THEN /\ controller_stops' =
                    {c \in Controllers : controller_status[c] = RUNNING}
             /\ \A c \in controller_stops' : controller_status'[c] # RUNNING
             /\ cashing_out'
        ELSE /\ controller_stops' = {}
             /\ cashing_out' = cashing_out]_vars

\* the deadline met a RUNNING controller and one that was not RUNNING
C3_Witness ==
    /\ cashing_out
    /\ controller_stops # {}
    /\ controller_stops # Controllers

\* C4: every on_tick runs the host's base tick, evaluate_cash_out_time, then
\* check_executors_status if cashing_out is true after the evaluation and
\* check_manual_cash_out otherwise, then send_performance_report.
C4_TickOrder ==
    calls # <<>> =>
        calls = <<"super.on_tick",
                  "evaluate_cash_out_time",
                  IF cashing_out THEN "check_executors_status"
                                 ELSE "check_manual_cash_out",
                  "send_performance_report">>

\* the tick in which the deadline was first reached
C4_Witness ==
    /\ controller_stops # {}
    /\ calls[3] = "check_executors_status"

\* the executors tracked for controller c
TrackedBy(c) == {i \in 1..Len(executors) : executors[i].controller_id = c}

\* C5: in an on_tick that runs check_manual_cash_out, a RUNNING controller
\* whose kill switch is set is stopped and each executor tracked for it gets
\* exactly one stop-action, which had not been issued before since the
\* switch was set; a TERMINATED controller whose switch is clear is
\* restarted and gets no stop-action; any other controller keeps its status
\* and gets no stop-action.
C5_ManualCashOut ==
    [][(IsTick /\ ~cashing_out') =>
        \A c \in Controllers :
            IF manual_kill_switch[c] /\ controller_status[c] = RUNNING
            THEN /\ controller_status'[c] = TERMINATED
                 /\ \A i \in TrackedBy(c) : StopCount(stop_actions', i) = 1
                 /\ c \notin manual_stop_issued
            ELSE /\ \A i \in TrackedBy(c) : StopCount(stop_actions', i) = 0
                 /\ IF ~manual_kill_switch[c] /\ controller_status[c] = TERMINATED
                    THEN controller_status'[c] = RUNNING
                    ELSE controller_status'[c] = controller_status[c]]_vars

\* a later on_tick found the switch still set on a controller it had
\* stopped, with executors tracked for it, and issued nothing
C5_Witness ==
    /\ calls # <<>>
    /\ ~cashing_out
    /\ stop_actions = <<>>
    /\ \E c \in Controllers :
          /\ manual_kill_switch[c]
          /\ c \in manual_stop_issued
          /\ controller_status[c] = TERMINATED
          /\ Cardinality(TrackedBy(c)) >= 2

\* C6: in an on_tick that runs check_executors_status, with no RUNNING
\* executor the application stop is requested once and no stop-action is
\* issued; with a RUNNING executor the application is not stopped and one
\* stop-action is issued for each RUNNING executor that is not trading and
\* none for any other executor.
C6_CheckExecutorsStatus ==
    [][(IsTick /\ cashing_out') =>
        IF RunningExecutors = {}
        THEN /\ app_stop_requests' = app_stop_requests + 1
             /\ stop_actions' = <<>>
        ELSE /\ app_stop_requests' = app_stop_requests
             /\ \A i \in 1..Len(executors) :
                   StopCount(stop_actions', i) =
                       IF executors[i].status = RUNNING /\ ~executors[i].is_trading
                       THEN 1 ELSE 0
             /\ \A k \in 1..Len(stop_actions') :
                   /\ stop_actions'[k].executor_id \in 1..Len(executors)
                   /\ stop_actions'[k].controller_id =
                          executors[stop_actions'[k].executor_id].controller_id]_vars

\* check_executors_status met a RUNNING executor that was trading and one
\* that was not
C6_Witness ==
    /\ cashing_out
    /\ calls # <<>>
    /\ Len(stop_actions) = 1
    /\ \E i \in RunningExecutors : executors[i].is_trading

\* C7: the application stop is requested only by a step that leaves
\* cashing_out true and no executor RUNNING, before or after the step.
C7_StopOnlyWhenCashedOut ==
    [][app_stop_requests' # app_stop_requests =>
        /\ cashing_out'
        /\ RunningExecutors = {}
        /\ \A i \in 1..Len(executors') : executors'[i].status # RUNNING]_vars

\* the application was asked to stop after executors had run and ended
C7_Witness ==
    /\ app_stop_requests = 1
    /\ Len(executors) >= 1

\* C8: with a cash-out deadline set, ticks occurring for ever, every
\* executor that was asked to stop stopping and every trading executor
\* finishing, the runner eventually sets cashing_out and eventually asks the
\* application to stop.
C8_CashOutCompletes ==
    /\ (cash_out_time # None) ~> cashing_out
    /\ (cash_out_time # None) ~> (app_stop_requests > 0)

\* the application was asked to stop after the runner had waited for as
\* many executors as the host can hold
C8_Witness ==
    /\ cash_out_time # None
    /\ cashing_out
    /\ app_stop_requests > 0
    /\ Len(executors) = MaxExecutors
    /\ current_timestamp > cash_out_time[1]

\* C9: a report is published only with the message bus enabled, at most
\* once in an on_tick, and never less than one second after the previous
\* publication; with the bus disabled nothing is published and the
\* last-report timestamp stays as __init__ set it.
C9_ReportInterval ==
    /\ [][published' # 0 =>
            /\ mqtt_enabled
            /\ published' = 1
            /\ last_publication'= Some(current_timestamp')
            /\ last_publication # None =>
                   current_timestamp' - last_publication[1] >= Seconds(1)]_vars
    /\ [](~mqtt_enabled =>
            /\ published = 0
            /\ last_publication = None
            /\ last_performance_report_timestamp = 0)

\* an on_tick half a second after a publication published nothing
C9_Witness ==
    /\ mqtt_enabled
    /\ calls # <<>>
    /\ published = 0
    /\ last_publication # None
    /\ current_timestamp - last_publication[1] < Seconds(1)

\* the executors of the snapshot that are active
ActiveInfos == {i \in 1..Len(executors_info) : executors_info[i].is_active}

\* C10: at the start of every decision cycle the number of the controller's
\* active executors is at most target_max_executors.
C10_ActiveWithinTarget ==
    Cardinality(ActiveInfos) <= controller.config.target_max_executors

(***************************************************************************)
(* Properties of the arbitrage controller's decision cycle.  A step is a   *)
(* decision cycle when it leaves cycle_input set; the unprimed variables   *)
(* are what the cycle read.                                                *)
(***************************************************************************)
IsCycle == cycle_input' # None

CreateActions(acts) == SelectSeq(acts, LAMBDA a : a.kind = "create")
StopActions(acts) == SelectSeq(acts, LAMBDA a : a.kind = "stop")

\* what get_executor_config returned in the cycle of this step
CycleConfig ==
    get_executor_config(controller, price, balance, market_time,
                        cycle_input'[1])

\* C11: a decision cycle returns at most one create-action, tagged with the
\* controller's id; it returns none when running_executors_count() is at
\* least target_max_executors, whatever the price and the balance, and none
\* when get_executor_config() is absent; otherwise it returns one.
C11_CreateActionsProposal ==
    [][IsCycle =>
        LET creates == CreateActions(returned_actions')
            capped == running_executors_count(controller, executors_info)
                          >= controller.config.target_max_executors
        IN /\ Len(creates) <= 1
           /\ \A i \in 1..Len(creates) :
                 creates[i].controller_id = controller.config.id
           /\ capped => creates = <<>>
           /\ CycleConfig = None => creates = <<>>
           /\ (~capped /\ CycleConfig # None) => Len(creates) = 1]_vars

\* a cycle that returned nothing to create although the balance suffices
\* and the constructor does not raise: the count is at the target
C11_Witness ==
    /\ cycle_input = Some(FALSE)
    /\ controller.position_size_quote * price <= balance
    /\ CreateActions(returned_actions) = <<>>
    /\ Len(SelectSeq(executors_info, LAMBDA x : ~x.is_active))
          = controller.config.target_max_executors

\* C12: get_executor_config returns absent exactly when position_size_quote
\* times the mid price is strictly greater than the available quote balance
\* or the config constructor raises; otherwise (a needed amount equal to the
\* balance included) it returns a config buying on the source pair, selling
\* on the destination pair, of order amount position_size_quote and of the
\* configured minimum profitability.
C12_GetExecutorConfig ==
    \A raises \in BOOLEAN :
       LET r == get_executor_config(controller, price, balance, market_time,
                                    raises)
           cfg == controller.config
       IN /\ r = None <=> (cfg.position_size_quote * price > balance \/ raises)
          /\ r # None =>
                /\ r[1].buying_market =
                      ConnectorPair(cfg.source_connector_name,
                                    cfg.source_trading_pair)
                /\ r[1].selling_market =
                      ConnectorPair(cfg.dest_connector_name,
                                    cfg.dest_trading_pair)
                /\ r[1].order_amount = cfg.position_size_quote
                /\ r[1].min_profitability = cfg.min_profitability
                /\ r[1].controller_id = cfg.id

\* a cycle that returned a config with the needed amount equal to the
\* balance
C12_Witness ==
    /\ cycle_input = Some(FALSE)
    /\ controller.position_size_quote * price = balance
    /\ Len(CreateActions(returned_actions)) = 1
    /\ returned_actions[1].executor_config # None
    /\ returned_actions[1].executor_config[1].order_amount
          = controller.config.position_size_quote

\* the executors of the snapshot that are active, not trading and older
\* than executor_refresh_time
Due(infos, now) ==
    {i \in 1..Len(infos) :
        /\ infos[i].is_active
        /\ ~infos[i].is_trading
        /\ now - infos[i].timestamp > controller.config.executor_refresh_time}

\* C13: a decision cycle returns one stop-action for each executor of the
\* snapshot that is active, not trading and of an age strictly greater than
\* executor_refresh_time, and for no other executor (not at an age equal to
\* the threshold, not when trading, not when inactive); stop_actions_proposal
\* is executors_to_refresh.
C13_ExecutorsToRefresh ==
    [][IsCycle =>
        LET stops == StopActions(returned_actions')
        IN /\ \A i \in 1..Len(executors_info) :
                 Cardinality({k \in 1..Len(stops) :
                                stops[k].executor_id = executors_info[i].id})
                   = IF i \in Due(executors_info, market_time) THEN 1 ELSE 0
           /\ Len(stops) = Cardinality(Due(executors_info, market_time))
           /\ \A k \in 1..Len(stops) :
                 stops[k].controller_id = controller.config.id
           /\ stop_actions_proposal(controller, market_time, executors_info)
                 = executors_to_refresh(controller, market_time,
                                        executors_info)]_vars

\* a cycle that stopped one executor and left alone another whose age
\* equals a threshold of one second
C13_Witness ==
    /\ cycle_input # None
    /\ controller.config.executor_refresh_time = 1
    /\ Len(StopActions(returned_actions)) = 1
    /\ \E i \in 1..Len(executors_info) :
          /\ executors_info[i].is_active
          /\ ~executors_info[i].is_trading
          /\ market_time - executors_info[i].timestamp = 1
          /\ \A k \in 1..Len(returned_actions) :
                returned_actions[k].kind = "stop"
                    => returned_actions[k].executor_id # executors_info[i].id

\* C14: a decision cycle returns create_actions_proposal() followed by
\* stop_actions_proposal(): the create-actions (none or one) come before the
\* stop-actions and there is no action of another kind.
C14_CreateBeforeStop ==
    [][IsCycle =>
        LET acts == returned_actions'
        IN /\ acts = CreateActions(acts) \o StopActions(acts)
           /\ Len(CreateActions(acts)) <= 1
           /\ acts =
                 create_actions_proposal(controller, price, balance,
                                         market_time, cycle_input'[1],
                                         executors_info)
                 \o stop_actions_proposal(controller, market_time,
                                          executors_info)]_vars

\* a cycle that returned a create-action and a stop-action
C14_Witness ==
    /\ cycle_input # None
    /\ Len(returned_actions) = 2
    /\ returned_actions[1].kind = "create"
    /\ returned_actions[2].kind = "stop"

Entries(list) == {list[k] : k \in 1..Len(list)}

Unclosed(list) == SelectSeq(list, LAMBDA i : ~arbitrage_executors[i].is_closed)
\* and those that are
Shut(list) == SelectSeq(list, LAMBDA i : arbitrage_executors[i].is_closed)

\* C17: every on_tick of the standalone strategy calls cleanup_arbitrages
\* first; it then calls create_arbitrage_executor, once, exactly when the
\* active list is empty after the cleanup, with the source pair buying and
\* the destination pair selling, and appends what was created, if anything.
\* An executor closed at the start of the tick is in the closed list at its
\* end and may be replaced in the same tick; nothing is created while an
\* unclosed executor is active.
C17_XarbyTick ==
    [][xarby_calls' # <<>> =>
        LET attempted == "create_arbitrage_executor" \in Entries(xarby_calls')
            appended == IF xarby_created' # None
                        THEN <<xarby_created'[1]>> ELSE <<>>
        IN /\ xarby_calls'[1] = "cleanup_arbitrages"
           /\ \A k \in 1..Len(xarby_calls') :
                 xarby_calls'[k] = "create_arbitrage_executor"
                    => k = Len(xarby_calls')
           /\ closed_arbitrage_executors' =
                 closed_arbitrage_executors \o Shut(active_buy_arbitrages)
           /\ active_buy_arbitrages' =
                 Unclosed(active_buy_arbitrages) \o appended
           /\ attempted <=> Unclosed(active_buy_arbitrages) = <<>>
           /\ xarby_created' # None =>
                 /\ attempted
                 /\ arbitrage_executors'[xarby_created'[1]].config.buying_market
                       = ConnectorPair(XarbyConfig.source_connector_name,
                                       XarbyConfig.source_trading_pair)
                 /\ arbitrage_executors'[xarby_created'[1]].config.selling_market
                       = ConnectorPair(XarbyConfig.dest_connector_name,
                                       XarbyConfig.dest_trading_pair)]_vars

\* a tick that moved a closed executor to the closed list and replaced it
C17_Witness ==
    /\ xarby_calls = <<"cleanup_arbitrages",
                       "closed_arbitrage_executors.append",
                       "create_arbitrage_executor">>
    /\ xarby_created # None
    /\ active_buy_arbitrages = <<xarby_created[1]>>
    /\ closed_arbitrage_executors # <<>>

\* C18: create_arbitrage_executor returns no executor, and starts none, when
\* order_amount is strictly greater than the selling connector's base
\* balance, or order_amount times the mid price is strictly greater than the
\* buying connector's quote balance, or any step raises; otherwise it
\* constructs one executor, starts it and returns it.  The call returns in
\* every case.
C18_CreateArbitrageExecutor ==
    [][xarby_failure' # None =>
        LET order_amount == XarbyConfig.position_size_quote
            short == \/ order_amount > xarby_base_balance
                     \/ order_amount * xarby_price > xarby_quote_balance
            new == (Len(arbitrage_executors) + 1)..Len(arbitrage_executors')
        IN /\ xarby_created' = None <=> (short \/ xarby_failure'[1] # "none")
           /\ xarby_created' = None =>
                 \A i \in new : ~arbitrage_executors'[i].started
           /\ xarby_created' # None =>
                 /\ new = {xarby_created'[1]}
                 /\ arbitrage_executors'[xarby_created'[1]].started
                 /\ arbitrage_executors'[xarby_created'[1]].config.order_amount
                       = order_amount
           /\ \A i \in 1..Len(arbitrage_executors) :
                 arbitrage_executors'[i] = arbitrage_executors[i]]_vars

\* an executor created with both balances exactly at what is needed
C18_Witness ==
    /\ xarby_failure = Some("none")
    /\ xarby_created # None
    /\ arbitrage_executors[xarby_created[1]].started
    /\ XarbyConfig.position_size_quote = xarby_base_balance
    /\ XarbyConfig.position_size_quote * xarby_price = xarby_quote_balance

(***************************************************************************)
(* Properties of the decimal field validation.                             *)
(***************************************************************************)
\* chars is a numeral: digits, at most one point, an optional leading "-",
\* and at least one digit
Numeral(chars) ==
    /\ \A k \in 1..Len(chars) :
          \/ chars[k] \in DigitChars
          \/ chars[k] = "."
          \/ chars[k] = "-" /\ k = 1
    /\ Cardinality({k \in 1..Len(chars) : chars[k] = "."}) <= 1
    /\ \E k \in 1..Len(chars) : chars[k] \in DigitChars

RECURSIVE Pow10(_)
Pow10(n) == IF n = 0 THEN 1 ELSE 10 * Pow10(n - 1)

\* the number a numeral denotes, times 10^MaxChars: each digit weighs ten
\* to the power of its distance from the point
RECURSIVE PlaceSum(_, _, _)
PlaceSum(chars, point, k) ==
    IF k > Len(chars) THEN 0
    ELSE (IF chars[k] \in DigitChars
          THEN DigitValue(chars[k])
               * Pow10(MaxChars + (IF k < point THEN point - 1 - k
                                               ELSE point - k))
          ELSE 0)
         + PlaceSum(chars, point, k + 1)

NumeralValue(chars) ==
    LET points == {k \in 1..Len(chars) : chars[k] = "."}
        point == IF points = {} THEN Len(chars) + 1
                 ELSE CHOOSE k \in points : TRUE
    IN (IF chars[1] = "-" THEN 0 - 1 ELSE 1) * PlaceSum(chars, point, 1)

\* the number a Decimal is, times 10^MaxChars
DecimalNumber(d) ==
    (IF d.sign = 1 THEN 0 - 1 ELSE 1)
        * d.coefficient * Pow10(MaxChars + d.exponent)

\* C19: validate_decimal_fields, for position_size_quote and for
\* min_profitability, returns None for the empty string, the Decimal of the
\* number a numeral string denotes, and a value that is not a string as it
\* was supplied.
C19_ValidateDecimalFields ==
    validated # None =>
        LET v == raw_value
            r == validated[1]
        IN /\ (v.type = "str" /\ v.chars = <<>>) => r = PyNone
           /\ (v.type = "str" /\ Numeral(v.chars)) =>
                 /\ r.type = "Decimal"
                 /\ DecimalNumber(r) = NumeralValue(v.chars)
           /\ (v.type = "str" /\ v.chars # <<>> /\ ~Numeral(v.chars)) =>
                 r = InvalidOperation
           /\ v.type # "str" => r = v

\* "-.5" supplied for min_profitability and resolved to minus five tenths
C19_Witness ==
    /\ config_field = "min_profitability"
    /\ raw_value = PyStr(<<"-", ".", "5">>)
    /\ validated = Some(PyDecimal(1, 5, 0 - 1))

(***************************************************************************)
(* Properties of start() and apply_initial_setting.                        *)
(***************************************************************************)
\* the controllers whose config names the perpetual connector c and carries
\* a position_mode
NamingWithMode(c) ==
    {i \in Controllers :
        /\ controller_configs[i].connector_name = Some(c)
        /\ is_perpetual(c)
        /\ controller_configs[i].position_mode # None}

\* the controllers whose config names a perpetual connector and carries a
\* leverage
WithLeverage ==
    {i \in Controllers :
        /\ controller_configs[i].connector_name # None
        /\ is_perpetual(controller_configs[i].connector_name[1])
        /\ controller_configs[i].leverage # None}

Last(S) == CHOOSE i \in S : \A j \in S : j <= i

C21_CashOutTimeFromConfig ==
    /\ cash_out_time = None <=> time_to_cash_out = None
    /\ time_to_cash_out # None =>
          cash_out_time = Some(StartTime + Seconds(time_to_cash_out[1]))

\* C22: a step taken while cashing out, or an on_tick that ends cashing
\* out, moves no controller from TERMINATED to RUNNING, whatever its kill
\* switch: the controllers that are not RUNNING stay so.
C22_NoRestartWhileCashingOut ==
    [][(cashing_out \/ (IsTick /\ cashing_out')) =>
          \A c \in Controllers :
             controller_status[c] # RUNNING => controller_status'[c] # RUNNING]_vars

\* an on_tick run while cashing out, after the one that stopped the
\* controllers, with a controller TERMINATED although its kill switch is
\* clear and an executor still running
C22_Witness ==
    /\ cashing_out
    /\ calls # <<>>
    /\ controller_stops = {}
    /\ deadline_stop_ticks = 1
    /\ \E c \in Controllers :
          /\ controller_status[c] = TERMINATED
          /\ ~manual_kill_switch[c]
    /\ \E i \in 1..Len(executors) : executors[i].status = RUNNING

\* C23: through any sequence of on_tick calls, with executors closing
\* between them, the active buy list holds at most one executor, no executor
\* is in both lists, every executor of the closed list is closed, and the
\* closed list only grows at its end, by executors that were closed when
\* the tick moved them.
C23_XarbyBookkeeping ==
    /\ [](/\ Len(active_buy_arbitrages) <= 1
          /\ Entries(active_buy_arbitrages)
                \cap Entries(closed_arbitrage_executors) = {}
          /\ \A i \in Entries(closed_arbitrage_executors) :
                arbitrage_executors[i].is_closed
          /\ Cardinality(Entries(closed_arbitrage_executors))
                = Len(closed_arbitrage_executors))
    /\ [][/\ Len(closed_arbitrage_executors') >= Len(closed_arbitrage_executors)
          /\ SubSeq(closed_arbitrage_executors', 1,
                    Len(closed_arbitrage_executors))
                = closed_arbitrage_executors
          /\ \A k \in (Len(closed_arbitrage_executors) + 1)
                       ..Len(closed_arbitrage_executors') :
                /\ arbitrage_executors[closed_arbitrage_executors'[k]].is_closed
                /\ closed_arbitrage_executors'[k]
                      \in Entries(active_buy_arbitrages)]_vars

\* two executors in the closed list and a third, unclosed, active
C23_Witness ==
    /\ Len(closed_arbitrage_executors) = 2
    /\ Len(active_buy_arbitrages) = 1
    /\ ~arbitrage_executors[active_buy_arbitrages[1]].is_closed
    /\ xarby_calls # <<>>

(***************************************************************************)
(* A further property of the arbitrage controller.                         *)
(***************************************************************************)
\* C24: every create-action a decision cycle returns carries an executor
\* config that is present, also when the host's price or balance changes
\* between the two evaluations of get_executor_config().
C24_CreateActionCarriesConfig ==
    \A k \in 1..Len(returned_actions) :
       returned_actions[k].kind = "create"
          => returned_actions[k].executor_config # None

====
